---- MODULE Spec2Model ----
(***************************************************************************)
(* Packed secret sharing over GF(2^W): the field, the Lagrange and         *)
(* Reed-Solomon matrices and the PackedSharing object, as state machines   *)
(* whose actions are the calls of the library.                             *)
(***************************************************************************)
EXTENDS Integers, Sequences, FiniteSets, TLC

(***************************************************************************)
(* The instance of the field and the bounds of the model.                  *)
(***************************************************************************)
\* The width W of GF<const W: u8>: the field has 2^W elements.
W == 3
\* Largest number of parties n given to PackedSharing::new.
MaxN == 3
\* Largest number of packed secrets l = |pos|.
MaxL == 2
\* Largest integer value of an evaluation point given as pos, cpos or npos.
MaxPoint == 4
\* Largest number of elements appended to a shares vector in flight.
MaxExtra == 1
\* Largest number of shares replaced in flight.
MaxTamper == 1
\* Largest |cpos| and |npos| given to lagrange_coeffs.
MaxCpos == 3
MaxNpos == 2
\* Largest mssg_len and code_len given to rs_gen_mat.
MaxMssgLen == 7
MaxCodeLen == 7
\* Largest number of gate lines of a Bristol-Fashion file.
MaxGates == 3
\* Largest length of the input group of a file.
MaxInpLen == 2
\* Largest number of output groups of a file, and largest length of one.
MaxOutGroups == 2
MaxOutLen == 2
\* Largest gates_per_block given to pack.
MaxBlock == 3
\* Largest field width used in one process, and the number of its threads.
MaxWidth == 4
MaxThreads == 2
\* Largest num given to ProtocolIDBuilder::new, largest length of a parent
\* ID, and largest number of calls of next() on one builder.
MaxNum == 3
MaxParentLen == 1
MaxCalls == 258

(***************************************************************************)
(* GF(2^W): src/math/galois/mod.rs                                         *)
(***************************************************************************)
RECURSIVE Pow2(_)
Pow2(k) == IF k = 0 THEN 1 ELSE 2 * Pow2(k - 1)

\* GF::ORDER
ORDER == Pow2(W)

\* GF::ZERO, GF::ONE
ZERO == 0
ONE == 1

\* The values a GF<W> holds when it is built from an in-range integer.
GF == 0 .. (ORDER - 1)

RECURSIVE Xor(_, _)
Xor(a, b) ==
    IF a = 0 THEN b
    ELSE IF b = 0 THEN a
    ELSE ((a + b) % 2) + 2 * Xor(a \div 2, b \div 2)

\* The primitive polynomial the log tables of width w are built over.
PrimPoly(w) ==
    CASE w = 1 -> 3
      [] w = 2 -> 7
      [] w = 3 -> 11
      [] w = 4 -> 19
      [] w = 5 -> 37

\* galois_create_log_tables: ILogTable[j + 1] is x^j, for j in 0 .. ORDER - 2.
RECURSIVE ILogUpTo(_)
ILogUpTo(j) ==
    IF j = 0 THEN <<1>>
    ELSE LET prev == ILogUpTo(j - 1)
             b    == 2 * prev[j]
         IN  Append(prev, IF b >= ORDER THEN Xor(b, PrimPoly(W)) ELSE b)

ILogTable == ILogUpTo(ORDER - 2)

\* LogTable[b] is the j with x^j = b, for every nonzero b of the field.
LogTable == [b \in 1 .. (ORDER - 1) |-> CHOOSE j \in 0 .. (ORDER - 2) : ILogTable[j + 1] = b]

\* impl AddAssign for GF: self.0 ^= rhs.0
GFAdd(a, b) == Xor(a, b)

\* impl Sub for GF: self + other
GFSub(a, b) == GFAdd(a, b)

\* impl MulAssign for GF: galois_logtable_multiply
GFMul(a, b) ==
    IF a = 0 \/ b = 0 THEN 0
    ELSE ILogTable[((LogTable[a] + LogTable[b]) % (ORDER - 1)) + 1]

\* impl DivAssign for GF: galois_logtable_divide, whose -1 for a zero
\* divisor is cast to u32.
GFDiv(a, b) ==
    IF b = 0 THEN Pow2(32) - 1
    ELSE IF a = 0 THEN 0
    ELSE ILogTable[((LogTable[a] - LogTable[b] + (ORDER - 1)) % (ORDER - 1)) + 1]

\* impl From<u32> for GF
GFFrom(value) == IF value >= ORDER THEN GFMul(value, ONE) ELSE value

(***************************************************************************)
(* Vectors and matrices (ndarray): a matrix is its shape and its rows.     *)
(***************************************************************************)
Range(s) == {s[i] : i \in 1 .. Len(s)}

NoRepetition(s) == \A i, j \in 1 .. Len(s) : i # j => s[i] # s[j]

\* Sequences over S of length exactly k, and of length at most k.
SeqsOfLen(S, k) == [1 .. k -> S]
SeqsUpTo(S, k) == UNION {SeqsOfLen(S, j) : j \in 0 .. k}

\* Sequences over S without repetition, of length at most k.
DistinctSeqsUpTo(S, k) == {s \in SeqsUpTo(S, k) : NoRepetition(s)}

\* v[from ..] of a 0-based slice, as a sequence.
SliceFrom(v, from) == SubSeq(v, from + 1, Len(v))

\* v[.. to] of a 0-based slice, as a sequence.
SliceTo(v, to) == SubSeq(v, 1, to)

RECURSIVE SumSeq(_)
SumSeq(s) == IF s = <<>> THEN ZERO ELSE GFAdd(s[1], SumSeq(Tail(s)))

RECURSIVE ProdSeq(_)
ProdSeq(s) == IF s = <<>> THEN ONE ELSE GFMul(s[1], ProdSeq(Tail(s)))

Array2(nrows, ncols, rows) == [nrows |-> nrows, ncols |-> ncols, rows |-> rows]

\* Array2::dot with a vector: one inner product per row.
Dot(m, v) == [r \in 1 .. m.nrows |-> SumSeq([c \in 1 .. m.ncols |-> GFMul(m.rows[r][c], v[c])])]

\* Array2::slice(s![..k, ..]): the first k rows.
RowsTo(m, k) == Array2(k, m.ncols, SubSeq(m.rows, 1, k))

\* Array2::reversed_axes
ReversedAxes(m) ==
    Array2(m.ncols, m.nrows, [c \in 1 .. m.ncols |-> [r \in 1 .. m.nrows |-> m.rows[r][c]]])

(***************************************************************************)
(* math/mod.rs                                                             *)
(***************************************************************************)
\* denom[i] = prod_{j} (if cpos[i] == cpos[j] then 1 else cpos[i] - cpos[j])
Denom(cpos) ==
    [i \in 1 .. Len(cpos) |->
        ProdSeq([j \in 1 .. Len(cpos) |->
            IF cpos[i] = cpos[j] THEN ONE ELSE GFSub(cpos[i], cpos[j])])]

\* LagrangeRow with the factor (v - x) left out of the divisor.
LagrangeRow_NoPointFactor(cpos, v) ==
    IF \E i \in 1 .. Len(cpos) : cpos[i] = v
    THEN LET i == CHOOSE k \in 1 .. Len(cpos) : cpos[k] = v
         IN  [j \in 1 .. Len(cpos) |-> IF j = i THEN ONE ELSE ZERO]
    ELSE LET numerator == ProdSeq([j \in 1 .. Len(cpos) |-> GFSub(v, cpos[j])])
             denom     == Denom(cpos)
         IN  [j \in 1 .. Len(cpos) |-> GFDiv(numerator, denom[j])]

\* One row of lagrange_coeffs: the coefficients that give the value at v.
LagrangeRow(cpos, v) ==
    IF \E i \in 1 .. Len(cpos) : cpos[i] = v
    THEN LET i == CHOOSE k \in 1 .. Len(cpos) : cpos[k] = v
         IN  [j \in 1 .. Len(cpos) |-> IF j = i THEN ONE ELSE ZERO]
    ELSE LET numerator == ProdSeq([j \in 1 .. Len(cpos) |-> GFSub(v, cpos[j])])
             denom     == Denom(cpos)
         IN  [j \in 1 .. Len(cpos) |->
                GFDiv(numerator, GFMul(GFSub(v, cpos[j]), denom[j]))]

lagrange_coeffs(cpos, npos) ==
    Array2(Len(npos), Len(cpos), [i \in 1 .. Len(npos) |-> LagrangeRow(cpos, npos[i])])

\* RsColumn with col built from the range 0 .. code_len - 1.
RECURSIVE RsColumn_ZeroBased(_, _)
RsColumn_ZeroBased(code_len, i) ==
    LET col == [k \in 1 .. code_len |-> GFFrom(k - 1)]
    IN  IF i = 0 THEN col
        ELSE LET before == RsColumn_ZeroBased(code_len, i - 1)
             IN  [k \in 1 .. code_len |-> GFMul(col[k], before[k])]

\* rs_gen_mat, column i (0-based) of the matrix: col pointwise times column i - 1.
RECURSIVE RsColumn(_, _)
RsColumn(code_len, i) ==
    LET col == [k \in 1 .. code_len |-> GFFrom(k)]
    IN  IF i = 0 THEN col
        ELSE LET before == RsColumn(code_len, i - 1)
             IN  [k \in 1 .. code_len |-> GFMul(col[k], before[k])]

\* The outcomes of `0..(mssg_len - 1)` when mssg_len is 0: the subtraction
\* panics in a build with overflow checks, and wraps to usize::MAX without
\* them, where the loop pushes columns until memory is exhausted and does
\* not return.
UnderflowOutcomes == {"panic", "no_return"}

\* rs_gen_mat with each new column the pointwise square of the column before.
RECURSIVE RsColumn_Squares(_, _)
RsColumn_Squares(code_len, i) ==
    IF i = 0 THEN [k \in 1 .. code_len |-> GFFrom(k)]
    ELSE LET before == RsColumn_Squares(code_len, i - 1)
         IN  [k \in 1 .. code_len |-> GFMul(before[k], before[k])]

rs_gen_mat_Squares(mssg_len, code_len) ==
    Array2(code_len, mssg_len,
           [k \in 1 .. code_len |-> [i \in 1 .. mssg_len |-> RsColumn_Squares(code_len, i - 1)[k]]])

\* rs_gen_mat for mssg_len >= 1: column 0 is pushed before the loop, which
\* then pushes mssg_len - 1 further columns.
rs_gen_mat(mssg_len, code_len) ==
    Array2(code_len, mssg_len,
           [k \in 1 .. code_len |-> [i \in 1 .. mssg_len |-> RsColumn(code_len, i - 1)[k]]])

super_inv_matrix(num_inp, num_out) == ReversedAxes(rs_gen_mat(num_out, num_inp))

(***************************************************************************)
(* sharing.rs                                                              *)
(***************************************************************************)
\* PackedSharing::share_pos
share_pos(n) == [i \in 1 .. n |-> GFFrom(i - 1)]

\* PackedSharing::default_pos
default_pos(n, l) == [i \in 1 .. l |-> GFFrom(n + i - 1)]

\* pos.iter().chain(sh_pos.iter())
AllPos(n, pos) == pos \o share_pos(n)

\* PackedSharing::compute_share_coeffs
compute_share_coeffs(d, n, pos) ==
    LET np      == d + 1
        all_pos == AllPos(n, pos)
    IN  lagrange_coeffs(SliceTo(all_pos, np), SliceFrom(all_pos, np))

\* compute_recon_coeffs interpolating from the first np share positions.
compute_recon_coeffs_FirstShares(d, n, pos) ==
    LET l       == Len(pos)
        np      == d + 1
        all_pos == AllPos(n, pos)
    IN  lagrange_coeffs(SubSeq(all_pos, l + 1, l + np), SliceTo(all_pos, l))

\* PackedSharing::compute_recon_coeffs
compute_recon_coeffs(d, n, pos) ==
    LET l       == Len(pos)
        np      == d + 1
        all_pos == AllPos(n, pos)
    IN  lagrange_coeffs(SliceFrom(all_pos, l + n - np), SliceTo(all_pos, l))

\* The share_coeffs field built by PackedSharing::new
NewShareCoeffs(d, n, pos) ==
    LET np      == d + 1
        all_pos == AllPos(n, pos)
    IN  lagrange_coeffs(SliceTo(all_pos, np), SliceFrom(all_pos, np))

\* The recon_coeffs field with the rows of the secrets only.
NewReconCoeffs_SecretsOnly(d, n, pos) ==
    LET l       == Len(pos)
        np      == d + 1
        all_pos == AllPos(n, pos)
    IN  lagrange_coeffs(SliceFrom(all_pos, l + n - np), SliceTo(all_pos, l))

\* The recon_coeffs field built by PackedSharing::new
NewReconCoeffs(d, n, pos) ==
    LET l       == Len(pos)
        np      == d + 1
        all_pos == AllPos(n, pos)
    IN  lagrange_coeffs(SliceFrom(all_pos, l + n - np), SliceTo(all_pos, l + n - np))

\* The rand_coeffs field built by PackedSharing::new
NewRandCoeffs(d, n) ==
    LET np     == d + 1
        sh_pos == share_pos(n)
    IN  lagrange_coeffs(SliceTo(sh_pos, np), SliceFrom(sh_pos, np))

\* PackedSharing::new
New(d, n, pos) ==
    [n            |-> n,
     np           |-> d + 1,
     l            |-> Len(pos),
     share_coeffs |-> NewShareCoeffs(d, n, pos),
     recon_coeffs |-> NewReconCoeffs(d, n, pos),
     rand_coeffs  |-> NewRandCoeffs(d, n)]

\* The debug assertions of PackedSharing::new and of lagrange_coeffs, and
\* what share needs of the shapes: np <= n, no pos below n, no repetition,
\* l <= np.
ValidParams(d, n, pos) ==
    /\ d + 1 <= n
    /\ \A i \in 1 .. Len(pos) : pos[i] >= n
    /\ NoRepetition(pos)
    /\ Len(pos) <= d + 1

\* share_using_coeffs with the pads chained before the secrets.
share_using_coeffs_PadsFirst(secrets, coeffs, l, rnd) ==
    LET np     == coeffs.ncols
        shares == SliceTo(rnd, np - l)
        points == shares \o SliceTo(secrets \o SliceFrom(rnd, np - l), l)
    IN  shares \o Dot(coeffs, points)

\* PackedSharing::share_using_coeffs. rnd is what the generator yields, in
\* the order of the calls of GF::rand: first the np - l pads, then the values
\* that fill a secrets vector shorter than l.
share_using_coeffs(secrets, coeffs, l, rnd) ==
    LET np     == coeffs.ncols
        shares == SliceTo(rnd, np - l)
        points == SliceTo(secrets \o SliceFrom(rnd, np - l), l) \o shares
    IN  shares \o Dot(coeffs, points)

\* The number of values share_using_coeffs draws from the generator.
NumDrawn(secrets, coeffs, l) ==
    (coeffs.ncols - l) + (IF Len(secrets) < l THEN l - Len(secrets) ELSE 0)

\* share with zeroes in place of the pads among the defining points.
Share_PadsNotInterpolated(self, secrets, rnd) ==
    LET np     == self.share_coeffs.ncols
        shares == SliceTo(rnd, np - self.l)
        points == SliceTo(secrets \o SliceFrom(rnd, np - self.l), self.l)
                    \o [i \in 1 .. (np - self.l) |-> ZERO]
    IN  shares \o Dot(self.share_coeffs, points)

\* PackedSharing::share
Share(self, secrets, rnd) == share_using_coeffs(secrets, self.share_coeffs, self.l, rnd)

\* PackedSharing::rand: the body ends after the np values are sampled.
Rand(self, rnd) == SliceTo(rnd, self.np)

\* PackedSharing::recon_using_coeffs
recon_using_coeffs(shares, coeffs) ==
    Dot(coeffs, SliceFrom(shares, Len(shares) - coeffs.ncols))

\* semihon_recon reading the first np shares.
semihon_recon_FirstShares(self, shares) ==
    Dot(RowsTo(self.recon_coeffs, self.l), SliceTo(shares, self.np))

\* PackedSharing::semihon_recon
semihon_recon(self, shares) ==
    Dot(RowsTo(self.recon_coeffs, self.l), SliceFrom(shares, self.n - self.np))

\* Result values of recon.
Ok(v) == [tag |-> "Ok", val |-> v]
Err(kind) == [tag |-> "Err", kind |-> kind]

\* recon rejecting only the vectors shorter than n.
Recon_ShortOnly(self, shares) ==
    IF Len(shares) < self.n THEN Err("Other")
    ELSE LET recon_vals == Dot(self.recon_coeffs, SliceFrom(shares, self.n - self.np))
         IN  IF \E i \in 1 .. (Len(recon_vals) - self.l) : recon_vals[self.l + i] # shares[i]
             THEN Err("MaliciousBehavior")
             ELSE Ok(SliceTo(recon_vals, self.l))

\* PackedSharing::recon
Recon(self, shares) ==
    IF Len(shares) # self.n THEN Err("Other")
    ELSE LET recon_vals == Dot(self.recon_coeffs, SliceFrom(shares, self.n - self.np))
         IN  IF \E i \in 1 .. (Len(recon_vals) - self.l) : recon_vals[self.l + i] # shares[i]
             THEN Err("MaliciousBehavior")
             ELSE Ok(SliceTo(recon_vals, self.l))

\* PackedSharing::recon_coeffs (the accessor)
recon_coeffs(self) == RowsTo(self.recon_coeffs, self.l)

\* PackedSharing::num_parties, num_secrets, degree
num_parties(self) == self.n
num_secrets(self) == self.l
degree(self) == self.np - 1

(***************************************************************************)
(* circuit.rs. Wire IDs are 0-based; wire w of a buffer is wires[w + 1].   *)
(***************************************************************************)
\* GateInfo<N> and the three cases of Gate
GateInfo(inp, out) == [inp |-> inp, out |-> out]
Gate(kind, inp, out) == [kind |-> kind, inp |-> inp, out |-> out]

\* The fan-in N of the GateInfo<N> each kind of gate carries.
FanIn(kind) == IF kind = "Inv" THEN 1 ELSE 2

\* The half-open range lo..hi of wire IDs, collected in ascending order.
WireRange(lo, hi) == [i \in 1 .. (hi - lo) |-> lo + i - 1]

RECURSIVE SumNat(_)
SumNat(s) == IF s = <<>> THEN 0 ELSE s[1] + SumNat(Tail(s))

\* Iterator::rev
Reversed(s) == [i \in 1 .. Len(s) |-> s[Len(s) + 1 - i]]

\* Iterator::flatten of a vector of vectors
RECURSIVE Flatten(_)
Flatten(vv) == IF vv = <<>> THEN <<>> ELSE vv[1] \o Flatten(Tail(vv))

\* slice::chunks(size), size >= 1: consecutive pieces of `size` elements,
\* the last one shorter when the length is not a multiple of size.
RECURSIVE Chunks(_, _)
Chunks(v, size) ==
    IF v = <<>> THEN <<>>
    ELSE IF Len(v) <= size THEN <<v>>
    ELSE <<SubSeq(v, 1, size)>> \o Chunks(SubSeq(v, size + 1, Len(v)), size)

\* from_bristol_fashion, the input groups: scan(0, ..) over inp_lens gives
\* group i the range that starts where group i - 1 ended.
BristolInputs(inp_lens) ==
    [i \in 1 .. Len(inp_lens) |->
        WireRange(SumNat(SubSeq(inp_lens, 1, i - 1)), SumNat(SubSeq(inp_lens, 1, i)))]

\* from_bristol_fashion, the output groups: rev().scan(num_wires, ..) walks
\* out_lens from the last to the first, taking each range off the top of
\* the wire space, and collect() keeps the groups in the order of the walk.
BristolOutputs(num_wires, out_lens) ==
    LET rev == Reversed(out_lens)
    IN  [i \in 1 .. Len(rev) |->
            WireRange(num_wires - SumNat(SubSeq(rev, 1, i)),
                      num_wires - SumNat(SubSeq(rev, 1, i - 1)))]

\* Circuit::from_bristol_fashion on a file with this header and these gate
\* lines (each a kind, its input wires and its output wire).
from_bristol_fashion(file) ==
    [gates     |-> file.gates,
     inputs    |-> BristolInputs(file.inp_lens),
     outputs   |-> BristolOutputs(file.num_wires, file.out_lens),
     num_wires |-> file.num_wires]

\* eval, the first loop: the bits of each input group written to its wires.
RECURSIVE WriteWires(_, _, _)
WriteWires(wires, ids, bits) ==
    IF ids = <<>> \/ bits = <<>> THEN wires
    ELSE WriteWires([wires EXCEPT ![ids[1] + 1] = bits[1]], Tail(ids), Tail(bits))

RECURSIVE WriteInputs(_, _, _)
WriteInputs(wires, groups, inputs) ==
    IF groups = <<>> \/ inputs = <<>> THEN wires
    ELSE WriteInputs(WriteWires(wires, groups[1], inputs[1]), Tail(groups), Tail(inputs))

\* The value a gate of this kind gives its output wire.
GateValue(kind, vals) ==
    CASE kind = "Xor" -> vals[1] # vals[2]
      [] kind = "And" -> vals[1] /\ vals[2]
      [] kind = "Inv" -> ~vals[1]

\* eval, the second loop: the gates in order, each reading and writing wires.
RECURSIVE RunGates(_, _)
RunGates(wires, gates) ==
    IF gates = <<>> THEN wires
    ELSE LET g    == gates[1]
             vals == [i \in 1 .. Len(g.inp) |-> wires[g.inp[i] + 1]]
         IN  RunGates([wires EXCEPT ![g.out + 1] = GateValue(g.kind, vals)], Tail(gates))

\* eval, the third loop: the bits of the wires of each group.
ReadGroups(wires, groups) ==
    [i \in 1 .. Len(groups) |-> [j \in 1 .. Len(groups[i]) |-> wires[groups[i][j] + 1]]]

\* Circuit::eval
CircuitEval(self, inputs) ==
    LET wires  == [w \in 1 .. self.num_wires |-> FALSE]
        loaded == WriteInputs(wires, self.inputs, inputs)
    IN  ReadGroups(RunGates(loaded, self.gates), self.outputs)

\* pack, the first loop: the gates of one kind, in their order in the circuit.
RECURSIVE GatesOfKind(_, _)
GatesOfKind(gates, kind) ==
    IF gates = <<>> THEN <<>>
    ELSE (IF gates[1].kind = kind THEN <<GateInfo(gates[1].inp, gates[1].out)>> ELSE <<>>)
            \o GatesOfKind(Tail(gates), kind)

\* pack_gate_info, fan_outs: how often a wire is an input of these gates.
FanOuts(gates, wire) ==
    Cardinality({p \in (1 .. Len(gates)) \X (1 .. 2) :
                    p[2] <= Len(gates[p[1]].inp) /\ gates[p[1]].inp[p[2]] = wire})

\* The order of the tuples (count, wire).
WeightLeq(a, b) == a[1] < b[1] \/ (a[1] = b[1] /\ a[2] <= b[2])

\* pack_gate_info, the sort key of a gate: the greatest (count, wire) among
\* its input wires.
GateWeight(g, gates) ==
    LET wts == {<<FanOuts(gates, g.inp[i]), g.inp[i]>> : i \in 1 .. Len(g.inp)}
    IN  CHOOSE m \in wts : \A o \in wts : WeightLeq(o, m)

\* g put into a sorted vector after every gate whose key is not greater.
RECURSIVE InsertByWeight(_, _, _)
InsertByWeight(sorted, g, gates) ==
    IF sorted = <<>> THEN <<g>>
    ELSE IF WeightLeq(GateWeight(sorted[1], gates), GateWeight(g, gates))
         THEN <<sorted[1]>> \o InsertByWeight(Tail(sorted), g, gates)
         ELSE <<g>> \o sorted

\* gates.sort_by(key): a stable sort, gates of equal key keep their order.
RECURSIVE SortPrefix(_, _)
SortPrefix(gates, k) ==
    IF k = 0 THEN <<>>
    ELSE InsertByWeight(SortPrefix(gates, k - 1), gates[k], gates)

SortByWeight(gates) == SortPrefix(gates, Len(gates))

\* PackedGateInfoFrom with the column of the first input in every input slot.
PackedGateInfoFrom_FirstColumnOnly(gates, N) ==
    [inp |-> [i \in 1 .. N |-> [k \in 1 .. Len(gates) |-> gates[k].inp[1]]],
     out |-> [k \in 1 .. Len(gates) |-> gates[k].out]]

\* PackedGateInfo::from: one column per input slot, and the output column.
PackedGateInfoFrom(gates, N) ==
    [inp |-> [i \in 1 .. N |-> [k \in 1 .. Len(gates) |-> gates[k].inp[i]]],
     out |-> [k \in 1 .. Len(gates) |-> gates[k].out]]

\* pack_gate_info cutting the sorted gates into blocks of gates_per_block + 1.
pack_gate_info_LongerBlocks(gates_per_block, gates, N) ==
    LET chunks == Chunks(SortByWeight(gates), gates_per_block + 1)
    IN  [b \in 1 .. Len(chunks) |-> PackedGateInfoFrom(chunks[b], N)]

\* Circuit::pack_gate_info
pack_gate_info(gates_per_block, gates, N) ==
    LET chunks == Chunks(SortByWeight(gates), gates_per_block)
    IN  [b \in 1 .. Len(chunks) |-> PackedGateInfoFrom(chunks[b], N)]

\* The blocks of one kind, each wrapped in its case of PackedGate.
PackedGates(kind, infos) ==
    [b \in 1 .. Len(infos) |-> [kind |-> kind, inp |-> infos[b].inp, out |-> infos[b].out]]

\* Circuit::pack
Pack(self, gates_per_block) ==
    LET g_and == GatesOfKind(self.gates, "And")
        g_xor == GatesOfKind(self.gates, "Xor")
        g_inv == GatesOfKind(self.gates, "Inv")
    IN  [gates   |-> PackedGates("And", pack_gate_info(gates_per_block, g_and, 2))
                        \o PackedGates("Xor", pack_gate_info(gates_per_block, g_xor, 2))
                        \o PackedGates("Inv", pack_gate_info(gates_per_block, g_inv, 1)),
         inputs  |-> Chunks(Flatten(self.inputs), gates_per_block),
         outputs |-> Chunks(Flatten(self.outputs), gates_per_block),
         num_wires       |-> self.num_wires,
         gates_per_block |-> gates_per_block]

\* The number of blocks of one kind.
NumBlocks(packed, kind) == Cardinality({b \in 1 .. Len(packed.gates) : packed.gates[b].kind = kind})

\* PackedCircuit::get_gate_counts
get_gate_counts(self) ==
    <<NumBlocks(self, "And"), NumBlocks(self, "Xor"), NumBlocks(self, "Inv")>>

(***************************************************************************)
(* The statics of GF<W>: src/math/galois/mod.rs. A static declared inside  *)
(* a generic function is one item for all instances of the function, so    *)
(* DIST and INIT are shared by every width W used in the process.          *)
(***************************************************************************)
\* Uniform::new(low, high): the distribution over low .. high - 1.
Uniform(low, high) == [low |-> low, high |-> high]

\* get_dist::<w>: DIST.get_or_init(|| Uniform::new(0, 2_u32.pow(w))), the
\* cell being filled by the first caller only.
get_dist(dist, w) == IF dist.tag = "None" THEN [tag |-> "Some", val |-> Uniform(0, Pow2(w))] ELSE dist

\* The values Uniform::sample can return.
SampleRange(uniform) == uniform.low .. (uniform.high - 1)

\* Once::call_once running the closure again once the Once is complete.
OnceRunsClosure_AfterCompletion(once) == once # "running"

\* Once::call_once runs its closure iff no call_once has run one before.
OnceRunsClosure(once) == once = "incomplete"

\* What galois_create_log_tables(w) can return: 0 when the tables of w are
\* there already or were built now, -1 when they could not be built.
CreateLogTablesOutcomes(w, built) == IF w \in built THEN {0} ELSE {0, -1}

\* The value init() returns for its flag.
InitResult(flag) ==
    IF flag THEN [tag |-> "Ok", val |-> <<>>]
    ELSE [tag |-> "Err", kind |-> "Could not initialize the field."]

(***************************************************************************)
(* ProtocolIDBuilder: src/protocol/mod.rs                                  *)
(***************************************************************************)
\* u8::MAX
U8Max == 255

\* u64::next_power_of_two: the least power of two >= num (1 for num = 0).
RECURSIVE PowerOfTwoFrom(_, _)
PowerOfTwoFrom(p, num) == IF p >= num THEN p ELSE PowerOfTwoFrom(2 * p, num)

NextPowerOfTwo(num) == PowerOfTwoFrom(1, num)

\* u64::ilog2, for x >= 1
RECURSIVE ILog2(_)
ILog2(x) == IF x <= 1 THEN 0 ELSE 1 + ILog2(x \div 2)

\* ProtocolIDBuilder::new
BuilderNew(parent_id, num) ==
    LET num_bytes == (ILog2(NextPowerOfTwo(num)) + 7) \div 8
    IN  [id |-> parent_id, suffix |-> [i \in 1 .. num_bytes |-> 0]]

\* ProtocolIDBuilder::increment_bytes: the suffix it leaves and its result.
RECURSIVE increment_bytes(_, _)
increment_bytes(suffix, idx) ==
    IF idx >= Len(suffix) THEN [suffix |-> suffix, res |-> "Err"]
    ELSE IF suffix[idx + 1] = U8Max
         THEN increment_bytes([suffix EXCEPT ![idx + 1] = 0], idx + 1)
         ELSE [suffix |-> [suffix EXCEPT ![idx + 1] = @ + 1], res |-> "Ok"]

\* ProtocolIDBuilder::next: the builder it leaves and the item it returns.
BuilderNext(self) ==
    LET child_id == self.id \o self.suffix
        inc      == increment_bytes(self.suffix, 0)
    IN  [self |-> [id |-> self.id, suffix |-> inc.suffix],
         item |-> IF inc.res = "Ok" THEN [tag |-> "Some", val |-> child_id]
                  ELSE [tag |-> "None"]]

(***************************************************************************)
(* State.                                                                  *)
(***************************************************************************)
VARIABLES
    d, n, pos,      \* the arguments given to PackedSharing::new
    pss,            \* the PackedSharing instance
    secrets,        \* the secrets vectors shared into `shares`, in call order
    drawn,          \* what the generator yielded to the call that returned `shares`
    shares,         \* the shares vector held by the caller
    origin,         \* the call that produced `shares`
    tampered,       \* 0-based indices of the shares replaced since then
    resized,        \* whether shares were dropped or appended since then
    result,         \* what the last reconstruction call returned
    computed_share_coeffs,  \* what compute_share_coeffs returned
    computed_recon_coeffs,  \* what compute_recon_coeffs returned
    call,           \* the last call of a function of math/mod.rs
    ret,            \* what it returned
    file,           \* the Bristol-Fashion file given to from_bristol_fashion
    circ,           \* the Circuit it returned
    eval_inputs,    \* the input bits given to eval
    eval_outputs,   \* what eval returned
    packed,         \* the PackedCircuit returned by pack
    DIST,           \* the static OnceLock<Uniform<u32>> of get_dist
    INIT,           \* the static Once of init
    tables,         \* the widths whose log tables the C library holds
    constructions,  \* per width, the calls of galois_create_log_tables made
    threads,        \* per thread, its position in init() and the locals of the call
    sampled,        \* the last call of GF::rand and the value it returned
    builder,        \* the ProtocolIDBuilder
    children,       \* the child IDs next() returned as Some, in call order
    last_child,     \* what the last call of next() returned
    next_calls      \* the number of calls of next() made

paramVars == <<d, n, pos>>
sharingVars == <<secrets, drawn, shares, origin, tampered, resized, result>>
coeffVars == <<computed_share_coeffs, computed_recon_coeffs>>
mathVars == <<call, ret>>
circuitVars == <<file, circ, eval_inputs, eval_outputs, packed>>
fieldVars == <<DIST, INIT, tables, constructions, threads, sampled>>
idVars == <<builder, children, last_child, next_calls>>
vars == <<d, n, pos, pss, secrets, drawn, shares, origin, tampered, resized, result,
          computed_share_coeffs, computed_recon_coeffs, call, ret,
          file, circ, eval_inputs, eval_outputs, packed,
          DIST, INIT, tables, constructions, threads, sampled,
          builder, children, last_child, next_calls>>

\* The value of a variable that holds nothing yet, and one that holds v.
Null == [tag |-> "None"]
Some(v) == [tag |-> "Some", val |-> v]

\* `result` before any reconstruction call on the current shares.
NoResult == [fn |-> "none", out |-> Null]

\* The field elements used as evaluation points.
Points == {x \in GF : x <= MaxPoint}

\* The lengths given as code_len and num_inp: at most 2^W - 1.
CodeLens == {c \in 0 .. MaxCodeLen : c <= ORDER - 1}

\* The parameters new accepts (its debug assertions and those of
\* lagrange_coeffs hold) with n parties, n <= MaxN, and at most MaxL secrets.
NewParams ==
    {p \in (0 .. (MaxN - 1)) \X (1 .. MaxN) \X DistinctSeqsUpTo(Points, MaxL) :
        /\ p[2] <= ORDER
        /\ p[1] + 1 <= p[2]
        /\ \A i \in 1 .. Len(p[3]) : p[3][i] >= p[2]}

\* The parameters share, rand and recon can be used with: also l <= np.
SharingParams == {p \in NewParams : ValidParams(p[1], p[2], p[3])}

\* Pointwise sum of two vectors of the same length.
VecAdd(u, v) == [i \in 1 .. Len(u) |-> GFAdd(u[i], v[i])]

\* No circuit file has been read.
NoCircuit ==
    /\ file = Null
    /\ circ = Null
    /\ eval_inputs = Null
    /\ eval_outputs = Null
    /\ packed = Null

\* A thread that is not inside init().
IdleThread == [pc |-> "idle", W |-> 0, flag |-> TRUE, ran |-> FALSE, ret |-> Null]

\* The widths used in the process, and its threads.
Widths == 1 .. MaxWidth
Threads == 1 .. MaxThreads

\* The statics of the field at process start: DIST empty, INIT incomplete,
\* no log tables.
NoFieldUse ==
    /\ DIST = Null
    /\ INIT = "incomplete"
    /\ tables = {}
    /\ constructions = [w \in Widths |-> 0]
    /\ threads = [t \in Threads |-> IdleThread]
    /\ sampled = Null

\* No ProtocolIDBuilder has been made.
NoBuilder ==
    /\ builder = Null
    /\ children = <<>>
    /\ last_child = Null
    /\ next_calls = 0

(***************************************************************************)
(* Spec: one PackedSharing instance and the shares vector of its caller.   *)
(***************************************************************************)
Init ==
    /\ \E p \in SharingParams :
        /\ d = p[1]
        /\ n = p[2]
        /\ pos = p[3]
        /\ pss = New(p[1], p[2], p[3])
    /\ secrets = <<>>
    /\ drawn = <<>>
    /\ shares = <<>>
    /\ origin = "none"
    /\ tampered = {}
    /\ resized = FALSE
    /\ result = NoResult
    /\ computed_share_coeffs = Null
    /\ computed_recon_coeffs = Null
    /\ call = Null
    /\ ret = Null
    /\ NoCircuit /\ NoFieldUse /\ NoBuilder

\* shares = pss.share(secrets, rng): the first call of a session.
ShareCall ==
    /\ origin = "none"
    /\ \E s \in SeqsOfLen(GF, pss.l) :
       \E rnd \in SeqsOfLen(GF, NumDrawn(s, pss.share_coeffs, pss.l)) :
        /\ secrets' = <<s>>
        /\ drawn' = rnd
        /\ shares' = Share(pss, s, rnd)
        /\ origin' = "share"
        /\ tampered' = {}
        /\ resized' = FALSE
        /\ result' = NoResult
        /\ UNCHANGED <<paramVars, pss, coeffVars, mathVars,
                   circuitVars, fieldVars, idVars>>

\* shares = shares + pss.share(b, rng), pointwise: the sum of two sharings.
AddShareCall ==
    /\ origin = "share"
    /\ tampered = {}
    /\ ~resized
    /\ \E b \in SeqsOfLen(GF, pss.l) :
       \E rnd \in SeqsOfLen(GF, NumDrawn(b, pss.share_coeffs, pss.l)) :
        /\ secrets' = Append(secrets, b)
        /\ drawn' = <<>>
        /\ shares' = VecAdd(shares, Share(pss, b, rnd))
        /\ origin' = "sum"
        /\ result' = NoResult
        /\ UNCHANGED <<paramVars, pss, tampered, resized, coeffVars, mathVars,
                   circuitVars, fieldVars, idVars>>

\* shares = pss.rand(rng): the first call of a session.
RandCall ==
    /\ origin = "none"
    /\ \E rnd \in SeqsOfLen(GF, pss.np) :
        /\ secrets' = <<>>
        /\ drawn' = rnd
        /\ shares' = Rand(pss, rnd)
        /\ origin' = "rand"
        /\ tampered' = {}
        /\ resized' = FALSE
        /\ result' = NoResult
        /\ UNCHANGED <<paramVars, pss, coeffVars, mathVars,
                   circuitVars, fieldVars, idVars>>

\* A party sends a value other than its share: shares[i] is replaced.
Tamper ==
    /\ origin = "share"
    /\ ~resized
    /\ Cardinality(tampered) < MaxTamper
    /\ \E i \in 0 .. (Len(shares) - 1) :
       \E v \in GF \ {shares[i + 1]} :
        /\ i \notin tampered
        /\ shares' = [shares EXCEPT ![i + 1] = v]
        /\ tampered' = tampered \cup {i}
        /\ result' = NoResult
        /\ UNCHANGED <<paramVars, pss, secrets, drawn, origin, resized, coeffVars, mathVars,
                   circuitVars, fieldVars, idVars>>

\* A share does not arrive: the vector loses its last element.
DropShare ==
    /\ origin \in {"share", "rand"}
    /\ tampered = {}
    /\ Len(shares) > 0
    /\ Len(shares) <= pss.n
    /\ shares' = SliceTo(shares, Len(shares) - 1)
    /\ resized' = TRUE
    /\ result' = NoResult
    /\ UNCHANGED <<paramVars, pss, secrets, drawn, origin, tampered, coeffVars, mathVars,
                   circuitVars, fieldVars, idVars>>

\* A value too many arrives: the vector gains an element.
AppendShare ==
    /\ origin \in {"share", "rand"}
    /\ tampered = {}
    /\ Len(shares) >= pss.n
    /\ Len(shares) < pss.n + MaxExtra
    /\ \E v \in GF :
        /\ shares' = Append(shares, v)
        /\ resized' = TRUE
        /\ result' = NoResult
        /\ UNCHANGED <<paramVars, pss, secrets, drawn, origin, tampered, coeffVars, mathVars,
                   circuitVars, fieldVars, idVars>>

\* result = pss.recon(shares)
ReconCall ==
    /\ result' = [fn |-> "recon", out |-> Recon(pss, shares)]
    /\ UNCHANGED <<paramVars, pss, secrets, drawn, shares, origin, tampered, resized,
                   coeffVars, mathVars,
                   circuitVars, fieldVars, idVars>>

\* result = pss.semihon_recon(shares); the call asserts |shares| = n.
SemihonReconCall ==
    /\ Len(shares) = pss.n
    /\ result' = [fn |-> "semihon_recon", out |-> semihon_recon(pss, shares)]
    /\ UNCHANGED <<paramVars, pss, secrets, drawn, shares, origin, tampered, resized,
                   coeffVars, mathVars,
                   circuitVars, fieldVars, idVars>>

Next ==
    \/ ShareCall
    \/ AddShareCall
    \/ RandCall
    \/ Tamper
    \/ DropShare
    \/ AppendShare
    \/ ReconCall
    \/ SemihonReconCall

Spec == Init /\ [][Next]_vars

(***************************************************************************)
(* Properties of Spec.                                                     *)
(***************************************************************************)
\* `shares` is what share returned, untouched.
HonestSharing == origin = "share" /\ tampered = {} /\ ~resized

\* The sets of k distinct share indices (0-based) among n shares.
IndexSets(num, k) == {S \in SUBSET (0 .. (num - 1)) : Cardinality(S) = k}

\* The values a vector holds at the indices of S.
View(v, S) == [i \in S |-> v[i + 1]]

\* The pad choices under which share(s) shows the values view at S.
PadsGiving(s, S, view) ==
    {p \in SeqsOfLen(GF, pss.np - pss.l) : View(Share(pss, s, p), S) = view}

\* C1: share returns exactly n shares, and recon of the n unmodified shares
\* returns Ok(secrets), for every valid parameter set, secrets and pads.
C1_HonestReconReturnsSecrets ==
    HonestSharing =>
        /\ Len(shares) = pss.n
        /\ result.fn = "recon" => result.out = Ok(secrets[1])

C1_Witness ==
    /\ HonestSharing
    /\ pss.l >= 1 /\ pss.np > pss.l /\ pss.n > pss.np
    /\ \E i \in 1 .. pss.l : secrets[1][i] # ZERO
    /\ result.fn = "recon"
    /\ result.out = Ok(secrets[1])

\* C2: when n - np >= 1, replacing any one share of an honest sharing by a
\* different field element makes recon return Err(MaliciousBehavior), for a
\* checked share (i < n - np) and for an interpolated one (i >= n - np).
C2_SingleTamperDetected ==
    ( /\ origin = "share" /\ ~resized
      /\ Cardinality(tampered) = 1
      /\ pss.n - pss.np >= 1
      /\ result.fn = "recon" )
    => result.out = Err("MaliciousBehavior")

C2_Witness ==
    /\ origin = "share" /\ ~resized
    /\ pss.n - pss.np >= 1
    /\ pss.np >= 2
    /\ \E i \in (pss.n - pss.np) .. (pss.n - 1) : tampered = {i}
    /\ result.fn = "recon"
    /\ result.out = Err("MaliciousBehavior")

\* C3 as stated: for l >= 1, over the equally likely pads, the values of any
\* d shares output by share are uniform over GF^d: each of the |GF|^d views
\* is given by the same number of the |GF|^(np - l) pad choices.
C3_AnyDSharesUniform ==
    (HonestSharing /\ pss.l >= 1 /\ result.fn = "none") =>
        \A S \in IndexSets(pss.n, degree(pss)) :
        \A view \in [S -> GF] :
            Cardinality(PadsGiving(secrets[1], S, view)) * Cardinality([S -> GF])
                = Cardinality(SeqsOfLen(GF, pss.np - pss.l))

\* C3 amended: for l >= 1, the values of any np - l = d - l + 1 shares output
\* by share are uniform over GF^(np - l), whatever the secrets: there are as
\* many views of np - l shares as pad choices, and the view a sharing shows
\* is given by its own pads only. (Every secrets vector and every pad choice
\* is a reachable state, so no two pad choices share a view.)
C3_AnyNpMinusLSharesUniform ==
    (HonestSharing /\ pss.l >= 1 /\ result.fn = "none") =>
        \A S \in IndexSets(pss.n, pss.np - pss.l) :
            /\ Cardinality([S -> GF]) = Cardinality(SeqsOfLen(GF, pss.np - pss.l))
            /\ PadsGiving(secrets[1], S, View(shares, S)) = {drawn}

C3_Witness ==
    /\ HonestSharing
    /\ pss.l = 2 /\ pss.np = 3
    /\ result.fn = "none"
    /\ \E i \in 1 .. pss.l : secrets[1][i] # ZERO
    /\ \A S \in IndexSets(pss.n, pss.np - pss.l) :
           PadsGiving(secrets[1], S, View(shares, S)) = {drawn}

\* C4: semihon_recon of the pointwise sum of share(a) and share(b), made by
\* one instance with any pads, returns the pointwise sum a + b.
C4_SumReconstructsToSum ==
    (origin = "sum" /\ tampered = {} /\ ~resized /\ result.fn = "semihon_recon")
    => result.out = VecAdd(secrets[1], secrets[2])

C4_Witness ==
    /\ origin = "sum" /\ tampered = {} /\ ~resized
    /\ pss.l >= 1 /\ pss.np > pss.l /\ pss.n > pss.np
    /\ secrets[1] # secrets[2]
    /\ result.fn = "semihon_recon"
    /\ result.out = VecAdd(secrets[1], secrets[2])

\* C5: rand returns n shares, the first np being the sampled values in order
\* and the other n - np being rand_coeffs applied to them, and recon of the
\* output returns Ok.
C5_RandIsDegreeDSharing ==
    (origin = "rand" /\ tampered = {} /\ ~resized) =>
        /\ Len(shares) = pss.n
        /\ SliceTo(shares, pss.np) = drawn
        /\ SliceFrom(shares, pss.np) = Dot(pss.rand_coeffs, drawn)
        /\ result.fn = "recon" => result.out.tag = "Ok"

\* C6: for a shares vector whose length is not n, recon returns an error
\* that is not MaliciousBehavior and never Ok, shorter vectors than the
\* slice start n - np included.
C6_WrongLengthIsError ==
    (Len(shares) # pss.n /\ result.fn = "recon") =>
        /\ result.out.tag = "Err"
        /\ result.out.kind # "MaliciousBehavior"

C6_Witness ==
    /\ origin = "share"
    /\ Len(shares) < pss.n - pss.np
    /\ result.fn = "recon"
    /\ result.out = Err("Other")

(***************************************************************************)
(* SpecCoeffs: new and the static helpers, called with the same arguments. *)
(***************************************************************************)
InitCoeffs ==
    /\ \E p \in NewParams :
        /\ d = p[1]
        /\ n = p[2]
        /\ pos = p[3]
    /\ pss = Null
    /\ secrets = <<>>
    /\ drawn = <<>>
    /\ shares = <<>>
    /\ origin = "none"
    /\ tampered = {}
    /\ resized = FALSE
    /\ result = NoResult
    /\ computed_share_coeffs = Null
    /\ computed_recon_coeffs = Null
    /\ call = Null
    /\ ret = Null
    /\ NoCircuit /\ NoFieldUse /\ NoBuilder

\* pss = PackedSharing::new(d, n, pos)
NewCall ==
    /\ pss' = New(d, n, pos)
    /\ UNCHANGED <<paramVars, sharingVars, coeffVars, mathVars,
                   circuitVars, fieldVars, idVars>>

\* computed_share_coeffs = PackedSharing::compute_share_coeffs(d, n, pos)
ComputeShareCoeffsCall ==
    /\ computed_share_coeffs' = compute_share_coeffs(d, n, pos)
    /\ UNCHANGED <<paramVars, pss, sharingVars, computed_recon_coeffs, mathVars,
                   circuitVars, fieldVars, idVars>>

\* computed_recon_coeffs = PackedSharing::compute_recon_coeffs(d, n, pos)
ComputeReconCoeffsCall ==
    /\ computed_recon_coeffs' = compute_recon_coeffs(d, n, pos)
    /\ UNCHANGED <<paramVars, pss, sharingVars, computed_share_coeffs, mathVars,
                   circuitVars, fieldVars, idVars>>

NextCoeffs ==
    \/ NewCall
    \/ ComputeShareCoeffsCall
    \/ ComputeReconCoeffsCall

SpecCoeffs == InitCoeffs /\ [][NextCoeffs]_vars

\* new and both helpers have returned.
AllCoeffsComputed ==
    pss # Null /\ computed_share_coeffs # Null /\ computed_recon_coeffs # Null

\* C7 as stated: compute_share_coeffs equals the share_coeffs field of new
\* and compute_recon_coeffs equals the recon_coeffs field of new, both of
\* shape (l + n - np, np), entry by entry.
C7_HelpersEqualFields ==
    AllCoeffsComputed =>
        /\ computed_share_coeffs = pss.share_coeffs
        /\ computed_recon_coeffs = pss.recon_coeffs
        /\ computed_share_coeffs.nrows = pss.l + pss.n - pss.np
        /\ computed_share_coeffs.ncols = pss.np
        /\ computed_recon_coeffs.nrows = pss.l + pss.n - pss.np
        /\ computed_recon_coeffs.ncols = pss.np

\* C7 amended: compute_share_coeffs equals the share_coeffs field of new,
\* of shape (l + n - np, np); compute_recon_coeffs equals the first l rows
\* of the recon_coeffs field of new (what the recon_coeffs() accessor
\* returns), of shape (l, np).
C7_ReconHelperIsSecretRows ==
    AllCoeffsComputed =>
        /\ computed_share_coeffs = pss.share_coeffs
        /\ computed_share_coeffs.nrows = pss.l + pss.n - pss.np
        /\ computed_share_coeffs.ncols = pss.np
        /\ Len(computed_share_coeffs.rows) = pss.l + pss.n - pss.np
        /\ computed_recon_coeffs = recon_coeffs(pss)
        /\ computed_recon_coeffs.nrows = pss.l
        /\ computed_recon_coeffs.ncols = pss.np
        /\ \A r \in 1 .. pss.l : Len(computed_recon_coeffs.rows[r]) = pss.np

C7_Witness ==
    /\ AllCoeffsComputed
    /\ pss.l >= 1 /\ pss.np >= 2 /\ pss.n > pss.np
    /\ computed_recon_coeffs = recon_coeffs(pss)
    /\ computed_recon_coeffs # pss.recon_coeffs

(***************************************************************************)
(* SpecLagrange and SpecRS: the calls of lagrange_coeffs, and those of     *)
(* rs_gen_mat and super_inv_matrix.                                        *)
(***************************************************************************)
Returned(v) == [outcome |-> "returned", val |-> v]
Failed(o) == [outcome |-> o, val |-> Null]

\* What a call of rs_gen_mat can end in.
RsGenMatOutcomes(mssg_len, code_len) ==
    IF mssg_len = 0
    THEN {Failed(o) : o \in UnderflowOutcomes}
    ELSE {Returned(rs_gen_mat(mssg_len, code_len))}

\* What a call of super_inv_matrix can end in.
SuperInvMatrixOutcomes(num_inp, num_out) ==
    IF num_out = 0
    THEN {Failed(o) : o \in UnderflowOutcomes}
    ELSE {Returned(super_inv_matrix(num_inp, num_out))}

InitMath ==
    /\ d = 0
    /\ n = 0
    /\ pos = <<>>
    /\ pss = Null
    /\ secrets = <<>>
    /\ drawn = <<>>
    /\ shares = <<>>
    /\ origin = "none"
    /\ tampered = {}
    /\ resized = FALSE
    /\ result = NoResult
    /\ computed_share_coeffs = Null
    /\ computed_recon_coeffs = Null
    /\ call = [fn |-> "none"]
    /\ ret = Null
    /\ NoCircuit /\ NoFieldUse /\ NoBuilder

\* ret = lagrange_coeffs(cpos, npos), neither with a repetition.
LagrangeCoeffsCall ==
    /\ call.fn = "none"
    /\ \E cpos \in DistinctSeqsUpTo(Points, MaxCpos) :
       \E npos \in DistinctSeqsUpTo(Points, MaxNpos) :
        /\ call' = [fn |-> "lagrange_coeffs", cpos |-> cpos, npos |-> npos]
        /\ ret' = Returned(lagrange_coeffs(cpos, npos))
        /\ UNCHANGED <<paramVars, pss, sharingVars, coeffVars,
                     circuitVars, fieldVars, idVars>>

\* ret = rs_gen_mat(mssg_len, code_len), code_len <= 2^W - 1.
RsGenMatCall ==
    /\ call.fn = "none"
    /\ \E mssg_len \in 0 .. MaxMssgLen :
       \E code_len \in CodeLens :
       \E r \in RsGenMatOutcomes(mssg_len, code_len) :
        /\ call' = [fn |-> "rs_gen_mat", mssg_len |-> mssg_len, code_len |-> code_len]
        /\ ret' = r
        /\ UNCHANGED <<paramVars, pss, sharingVars, coeffVars,
                     circuitVars, fieldVars, idVars>>

\* ret = super_inv_matrix(num_inp, num_out), num_out <= num_inp <= 2^W - 1.
SuperInvMatrixCall ==
    /\ call.fn = "none"
    /\ \E num_inp \in CodeLens :
       \E num_out \in 0 .. num_inp :
       \E r \in SuperInvMatrixOutcomes(num_inp, num_out) :
        /\ call' = [fn |-> "super_inv_matrix", num_inp |-> num_inp, num_out |-> num_out]
        /\ ret' = r
        /\ UNCHANGED <<paramVars, pss, sharingVars, coeffVars,
                     circuitVars, fieldVars, idVars>>

NextLagrange == LagrangeCoeffsCall

SpecLagrange == InitMath /\ [][NextLagrange]_vars

NextRS ==
    \/ RsGenMatCall
    \/ SuperInvMatrixCall

SpecRS == InitMath /\ [][NextRS]_vars

\* The value at x of the polynomial with coefficients P[1] + P[2] x + ...
RECURSIVE Eval(_, _)
Eval(P, x) == IF P = <<>> THEN ZERO ELSE GFAdd(P[1], GFMul(x, Eval(Tail(P), x)))

EvalAll(P, points) == [i \in 1 .. Len(points) |-> Eval(P, points[i])]

RECURSIVE GFPow(_, _)
GFPow(a, e) == IF e = 0 THEN ONE ELSE GFMul(a, GFPow(a, e - 1))

\* C8: for cpos and npos without repetition and disjoint, the matrix
\* lagrange_coeffs(cpos, npos) has shape (|npos|, |cpos|) and maps the
\* evaluations at cpos of every polynomial of degree < |cpos| to its
\* evaluations at npos.
C8_LagrangeInterpolates ==
    ( /\ call.fn = "lagrange_coeffs"
      /\ Range(call.cpos) \cap Range(call.npos) = {} )
    => /\ ret.val.nrows = Len(call.npos)
       /\ ret.val.ncols = Len(call.cpos)
       /\ Len(ret.val.rows) = Len(call.npos)
       /\ \A r \in 1 .. Len(call.npos) : Len(ret.val.rows[r]) = Len(call.cpos)
       /\ \A P \in SeqsOfLen(GF, Len(call.cpos)) :
              Dot(ret.val, EvalAll(P, call.cpos)) = EvalAll(P, call.npos)

C8_Witness ==
    /\ call.fn = "lagrange_coeffs"
    /\ Len(call.cpos) = 3 /\ Len(call.npos) = 1
    /\ Range(call.cpos) \cap Range(call.npos) = {}
    /\ \E P \in SeqsOfLen(GF, 3) :
           /\ P[3] # ZERO
           /\ Dot(ret.val, EvalAll(P, call.cpos)) = EvalAll(P, call.npos)
           /\ EvalAll(P, call.npos) # <<ZERO>>

\* The columns of the set cols (1-based), in ascending order.
RECURSIVE Ascending(_)
Ascending(cols) ==
    IF cols = {} THEN <<>>
    ELSE LET least == CHOOSE c \in cols : \A o \in cols : c <= o
         IN  <<least>> \o Ascending(cols \ {least})

\* The square matrix made of all rows of m and of its columns cols.
Minor(m, cols) ==
    LET order == Ascending(cols)
    IN  Array2(m.nrows, Len(order),
               [r \in 1 .. m.nrows |-> [c \in 1 .. Len(order) |-> m.rows[r][order[c]]]])

\* rows without its first row and without column j.
WithoutFirstRowAndColumn(rows, j) ==
    [r \in 1 .. (Len(rows) - 1) |->
        [c \in 1 .. (Len(rows) - 1) |-> rows[r + 1][IF c < j THEN c ELSE c + 1]]]

\* The determinant of a square matrix over GF(2^W), expanded along the first
\* row (in characteristic 2 the cofactors carry no sign).
RECURSIVE Det(_)
Det(rows) ==
    IF rows = <<>> THEN ONE
    ELSE SumSeq([j \in 1 .. Len(rows) |->
                    GFMul(rows[1][j], Det(WithoutFirstRowAndColumn(rows, j)))])

\* A square matrix is invertible iff its determinant is not zero.
Invertible(m) == m.nrows = m.ncols /\ Det(m.rows) # ZERO

\* C9: for 1 <= num_out <= num_inp <= 2^W - 1, super_inv_matrix(num_inp,
\* num_out) has shape (num_out, num_inp), and all its rows with any num_out
\* distinct columns form an invertible matrix.
C9_SuperInvertible ==
    (call.fn = "super_inv_matrix" /\ call.num_out >= 1) =>
        /\ ret.outcome = "returned"
        /\ ret.val.nrows = call.num_out
        /\ ret.val.ncols = call.num_inp
        /\ Len(ret.val.rows) = call.num_out
        /\ \A r \in 1 .. call.num_out : Len(ret.val.rows[r]) = call.num_inp
        /\ \A cols \in SUBSET (1 .. call.num_inp) :
               Cardinality(cols) = call.num_out => Invertible(Minor(ret.val, cols))

C9_Witness ==
    /\ call.fn = "super_inv_matrix"
    /\ call.num_out = 4 /\ call.num_inp = 7
    /\ ret.outcome = "returned"
    /\ Invertible(Minor(ret.val, {1, 3, 4, 7}))

\* The entries rs_gen_mat is to return: GF(k + 1)^(i + 1) at row k, column i
\* (0-based), in a matrix of shape (code_len, mssg_len).
RsEntriesArePowers ==
    /\ ret.outcome = "returned"
    /\ ret.val.nrows = call.code_len
    /\ ret.val.ncols = call.mssg_len
    /\ Len(ret.val.rows) = call.code_len
    /\ \A k \in 0 .. (call.code_len - 1) :
        /\ Len(ret.val.rows[k + 1]) = call.mssg_len
        /\ \A i \in 0 .. (call.mssg_len - 1) :
               ret.val.rows[k + 1][i + 1] = GFPow(GFFrom(k + 1), i + 1)

\* C10 as stated: for every mssg_len and every code_len <= 2^W - 1,
\* rs_gen_mat returns the matrix of shape (code_len, mssg_len) with
\* GF(k + 1)^(i + 1) at row k, column i.
C10_RsGenMatAnyLength ==
    call.fn = "rs_gen_mat" => RsEntriesArePowers

\* C10 amended: the same for every mssg_len >= 1 (with mssg_len = 0 the
\* call returns no matrix).
C10_RsGenMatPositiveLength ==
    (call.fn = "rs_gen_mat" /\ call.mssg_len >= 1) => RsEntriesArePowers

C10_Witness ==
    /\ call.fn = "rs_gen_mat"
    /\ call.mssg_len = 4 /\ call.code_len = 7
    /\ RsEntriesArePowers
    /\ ret.val.rows[7][4] # ret.val.rows[7][2]

(***************************************************************************)
(* SpecCircuit: a circuit read from a Bristol-Fashion file, evaluated and  *)
(* packed.                                                                 *)
(***************************************************************************)
Kinds == {"And", "Xor", "Inv"}

\* The gate lines that write wire w from wires below w.
GatesAt(w) ==
    UNION {{Gate(kind, inp, w) : inp \in SeqsOfLen(0 .. (w - 1), FanIn(kind))} : kind \in Kinds}

\* The sequences of g gate lines after k input wires: line i writes wire
\* k + i - 1 from input wires and wires written by the lines before it.
RECURSIVE GateLines(_, _)
GateLines(k, g) ==
    IF g = 0 THEN {<<>>}
    ELSE {Append(s, gt) : s \in GateLines(k, g - 1), gt \in GatesAt(k + g - 1)}

\* The output lengths a header of num_wires wires can declare.
OutLens(num_wires) ==
    {o \in SeqsUpTo(1 .. MaxOutLen, MaxOutGroups) : o # <<>> /\ SumNat(o) <= num_wires}

\* The input bits eval is given: one vector per input group, of its length.
InputAssignments(c) ==
    {a \in SeqsOfLen(SeqsUpTo(BOOLEAN, MaxInpLen), Len(c.inputs)) :
        \A i \in 1 .. Len(c.inputs) : Len(a[i]) = Len(c.inputs[i])}

\* circ = Circuit::from_bristol_fashion(path)
FromBristolFashionCall ==
    /\ circ = Null
    /\ \E k \in 1 .. MaxInpLen :
       \E g \in 0 .. MaxGates :
       \E lines \in GateLines(k, g) :
       \E out_lens \in OutLens(k + g) :
        LET f == [num_gates |-> g, num_wires |-> k + g, inp_lens |-> <<k>>,
                  out_lens |-> out_lens, gates |-> lines]
        IN  /\ file' = f
            /\ circ' = from_bristol_fashion(f)
            /\ UNCHANGED <<eval_inputs, eval_outputs, packed>>
    /\ UNCHANGED <<paramVars, pss, sharingVars, coeffVars, mathVars, fieldVars, idVars>>

\* eval_outputs = circ.eval(eval_inputs)
EvalCall ==
    /\ circ # Null
    /\ eval_outputs = Null
    /\ \E a \in InputAssignments(circ) :
        /\ eval_inputs' = Some(a)
        /\ eval_outputs' = Some(CircuitEval(circ, a))
    /\ UNCHANGED <<file, circ, packed>>
    /\ UNCHANGED <<paramVars, pss, sharingVars, coeffVars, mathVars, fieldVars, idVars>>

\* packed = circ.clone().pack(gates_per_block)
PackCall ==
    /\ circ # Null
    /\ packed = Null
    /\ \E gates_per_block \in 1 .. MaxBlock :
        packed' = Pack(circ, gates_per_block)
    /\ UNCHANGED <<file, circ, eval_inputs, eval_outputs>>
    /\ UNCHANGED <<paramVars, pss, sharingVars, coeffVars, mathVars, fieldVars, idVars>>

NextCircuit ==
    \/ FromBristolFashionCall
    \/ EvalCall
    \/ PackCall

SpecCircuit == InitMath /\ [][NextCircuit]_vars

\* The wires written by the gates before gate i (1-based).
WrittenBefore(c, i) == {c.gates[j].out : j \in 1 .. (i - 1)}

\* Every gate reads input wires of the circuit or wires written by a gate
\* before it.
TopologicallySorted(c) ==
    \A i \in 1 .. Len(c.gates) :
        Range(c.gates[i].inp) \subseteq (Range(Flatten(c.inputs)) \cup WrittenBefore(c, i))

\* No wire is written by two gates, and no input wire is written by a gate.
SingleAssignment(c) ==
    /\ \A i, j \in 1 .. Len(c.gates) : i # j => c.gates[i].out # c.gates[j].out
    /\ \A i \in 1 .. Len(c.gates) : c.gates[i].out \notin Range(Flatten(c.inputs))

\* A block applied to a wire buffer: the input columns are read, the
\* operation of the block is applied to each row, the output column written.
RunBlock(wires, blk) ==
    LET vals == [k \in 1 .. Len(blk.out) |->
                    GateValue(blk.kind, [i \in 1 .. Len(blk.inp) |-> wires[blk.inp[i][k] + 1]])]
    IN  WriteWires(wires, blk.out, vals)

\* The blocks one after another in their stored order.
RECURSIVE RunBlocks(_, _)
RunBlocks(wires, blocks) ==
    IF blocks = <<>> THEN wires ELSE RunBlocks(RunBlock(wires, blocks[1]), Tail(blocks))

\* That pass over the blocks made `passes` times.
RECURSIVE RunPasses(_, _, _)
RunPasses(wires, blocks, passes) ==
    IF passes = 0 THEN wires ELSE RunPasses(RunBlocks(wires, blocks), blocks, passes - 1)

\* The bits of the packed output wires after the packed input wires were
\* given `bits` and the blocks were passed over `passes` times.
EvalPacked(pc, bits, passes) ==
    LET wires  == [w \in 1 .. pc.num_wires |-> FALSE]
        loaded == WriteWires(wires, Flatten(pc.inputs), bits)
        final  == RunPasses(loaded, pc.gates, passes)
        outs   == Flatten(pc.outputs)
    IN  [j \in 1 .. Len(outs) |-> final[outs[j] + 1]]

\* The circuit was evaluated and packed.
EvaluatedAndPacked == circ # Null /\ eval_outputs # Null /\ packed # Null

\* C11 as stated: for a topologically sorted circuit, every gates_per_block
\* and every input, one pass over the blocks of pack in their stored order
\* gives the packed output wires the bits eval returns.
C11_OnePassMatchesEval ==
    (EvaluatedAndPacked /\ TopologicallySorted(circ)) =>
        EvalPacked(packed, Flatten(eval_inputs.val), 1) = Flatten(eval_outputs.val)

\* C11 amended: for a topologically sorted circuit in which every wire is
\* written by at most one gate and no input wire is written, every
\* gates_per_block and every input, passing over the blocks of pack in their
\* stored order as many times as the circuit has gates gives the packed
\* output wires the bits eval returns.
C11_RepeatedPassesMatchEval ==
    (EvaluatedAndPacked /\ TopologicallySorted(circ) /\ SingleAssignment(circ)) =>
        EvalPacked(packed, Flatten(eval_inputs.val), Len(circ.gates))
            = Flatten(eval_outputs.val)

C11_Witness ==
    /\ EvaluatedAndPacked
    /\ TopologicallySorted(circ) /\ SingleAssignment(circ)
    /\ Len(circ.gates) = 3
    /\ packed.gates_per_block = 2
    /\ EvalPacked(packed, Flatten(eval_inputs.val), 1) # Flatten(eval_outputs.val)
    /\ EvalPacked(packed, Flatten(eval_inputs.val), 2) # Flatten(eval_outputs.val)
    /\ EvalPacked(packed, Flatten(eval_inputs.val), 3) = Flatten(eval_outputs.val)

\* The gates held by the slots of the blocks, block after block.
BlockSlots(blk) == [k \in 1 .. Len(blk.out) |->
                       Gate(blk.kind, [i \in 1 .. Len(blk.inp) |-> blk.inp[i][k]], blk.out[k])]

RECURSIVE AllSlots(_)
AllSlots(blocks) ==
    IF blocks = <<>> THEN <<>> ELSE BlockSlots(blocks[1]) \o AllSlots(Tail(blocks))

\* How often x occurs in a sequence.
Occurrences(s, x) == Cardinality({i \in 1 .. Len(s) : s[i] = x})

\* The place of a kind in the stored order.
KindRank(kind) == CASE kind = "And" -> 1 [] kind = "Xor" -> 2 [] kind = "Inv" -> 3

\* ceil(a / b)
CeilDiv(a, b) == (a + b - 1) \div b

\* The indices of the blocks of one kind.
BlocksOf(pc, kind) == {b \in 1 .. Len(pc.gates) : pc.gates[b].kind = kind}

\* C12: pack stores the AND blocks, then the XOR blocks, then the INV blocks;
\* the blocks of a kind hold exactly gates_per_block gates each, except its
\* last block, which holds between 1 and gates_per_block; in a block every
\* column has the length of the block; every gate of the circuit is in
\* exactly one slot (its inputs and its output at one column index); and
\* get_gate_counts returns the three ceilings.
C12_PackBlockStructure ==
    (circ # Null /\ packed # Null) =>
        LET B     == packed.gates_per_block
            slots == AllSlots(packed.gates)
        IN  /\ \A i, j \in 1 .. Len(packed.gates) :
                   i < j => KindRank(packed.gates[i].kind) <= KindRank(packed.gates[j].kind)
            /\ \A b \in 1 .. Len(packed.gates) :
                LET blk == packed.gates[b]
                IN  /\ Len(blk.inp) = FanIn(blk.kind)
                    /\ \A i \in 1 .. Len(blk.inp) : Len(blk.inp[i]) = Len(blk.out)
                    /\ Len(blk.out) >= 1 /\ Len(blk.out) <= B
                    /\ (\E later \in BlocksOf(packed, blk.kind) : later > b) => Len(blk.out) = B
            /\ Len(slots) = Len(circ.gates)
            /\ \A g \in Range(circ.gates) \cup Range(slots) :
                   Occurrences(slots, g) = Occurrences(circ.gates, g)
            /\ get_gate_counts(packed) =
                   <<CeilDiv(Len(GatesOfKind(circ.gates, "And")), B),
                     CeilDiv(Len(GatesOfKind(circ.gates, "Xor")), B),
                     CeilDiv(Len(GatesOfKind(circ.gates, "Inv")), B)>>

C12_Witness ==
    /\ circ # Null /\ packed # Null
    /\ packed.gates_per_block = 2
    /\ Len(GatesOfKind(circ.gates, "Xor")) = 3
    /\ get_gate_counts(packed) = <<0, 2, 0>>
    /\ Len(packed.gates[1].out) = 2 /\ Len(packed.gates[2].out) = 1
    /\ AllSlots(packed.gates) # circ.gates

\* C16: for a header declaring out_len_1 .. out_len_k, from_bristol_fashion
\* gives k output groups, the i-th of length out_len_i, each a contiguous
\* ascending range of wire IDs, pairwise disjoint, with union
\* [num_wires - sum of the lengths, num_wires).
C16_OutputGroupsInDeclaredOrder ==
    circ # Null =>
        /\ Len(circ.outputs) = Len(file.out_lens)
        /\ \A i \in 1 .. Len(circ.outputs) :
            /\ Len(circ.outputs[i]) = file.out_lens[i]
            /\ \A j \in 1 .. (Len(circ.outputs[i]) - 1) :
                   circ.outputs[i][j + 1] = circ.outputs[i][j] + 1
        /\ \A i, j \in 1 .. Len(circ.outputs) :
               i # j => Range(circ.outputs[i]) \cap Range(circ.outputs[j]) = {}
        /\ Range(Flatten(circ.outputs)) =
               (file.num_wires - SumNat(file.out_lens)) .. (file.num_wires - 1)

(***************************************************************************)
(* SpecRand: the calls of GF::<w>::rand made in one process.               *)
(***************************************************************************)
\* sampled = GF::<w>::rand(rng)
GFRandCall ==
    /\ \E w \in Widths :
        LET dist == get_dist(DIST, w)
        IN  /\ DIST' = dist
            /\ \E v \in SampleRange(dist.val) :
                   sampled' = [W |-> w, val |-> v]
    /\ UNCHANGED <<INIT, tables, constructions, threads>>
    /\ UNCHANGED <<paramVars, pss, sharingVars, coeffVars, mathVars, circuitVars, idVars>>

NextRand == GFRandCall

SpecRand == InitMath /\ [][NextRand]_vars

\* C13: whatever widths the process uses and in whatever order, a call of
\* GF::<w>::rand returns a value of [0, 2^w) for its own w, and can return
\* every value of that range.
C13_RandInRangeOfOwnWidth ==
    /\ sampled # Null => sampled.val \in 0 .. (Pow2(sampled.W) - 1)
    /\ \A w \in Widths : SampleRange(get_dist(DIST, w).val) = 0 .. (Pow2(w) - 1)

(***************************************************************************)
(* SpecInit: threads calling GF::<w>::init() for any widths.               *)
(***************************************************************************)
\* Thread t calls init::<w>(): let mut flag = true.
InitEnter ==
    /\ \E t \in Threads :
       \E w \in Widths :
        /\ threads[t].pc \in {"idle", "returned"}
        /\ threads' = [threads EXCEPT ![t] =
               [pc |-> "call_once", W |-> w, flag |-> TRUE, ran |-> FALSE, ret |-> Null]]
    /\ UNCHANGED <<DIST, INIT, tables, constructions, sampled>>
    /\ UNCHANGED <<paramVars, pss, sharingVars, coeffVars, mathVars, circuitVars, idVars>>

\* INIT.call_once(..): the thread waits while another runs the closure,
\* starts the closure when none has run, and goes on otherwise.
CallOnce ==
    /\ \E t \in Threads :
        /\ threads[t].pc = "call_once"
        /\ INIT # "running"
        /\ IF OnceRunsClosure(INIT)
           THEN /\ INIT' = "running"
                /\ threads' = [threads EXCEPT ![t].pc = "closure"]
           ELSE /\ INIT' = INIT
                /\ threads' = [threads EXCEPT ![t].pc = "check"]
    /\ UNCHANGED <<DIST, tables, constructions, sampled>>
    /\ UNCHANGED <<paramVars, pss, sharingVars, coeffVars, mathVars, circuitVars, idVars>>

\* The closure: galois_create_log_tables(W), flag = false when it fails;
\* the Once is complete when the closure returns.
Closure ==
    /\ \E t \in Threads :
        /\ threads[t].pc = "closure"
        /\ \E res \in CreateLogTablesOutcomes(threads[t].W, tables) :
            /\ constructions' = [constructions EXCEPT ![threads[t].W] = @ + 1]
            /\ tables' = IF res = 0 THEN tables \cup {threads[t].W} ELSE tables
            /\ threads' = [threads EXCEPT ![t].pc = "check",
                                          ![t].ran = TRUE,
                                          ![t].flag = IF res # 0 THEN FALSE ELSE @]
            /\ INIT' = "complete"
    /\ UNCHANGED <<DIST, sampled>>
    /\ UNCHANGED <<paramVars, pss, sharingVars, coeffVars, mathVars, circuitVars, idVars>>

\* if flag { Ok(()) } else { Err(..) }
InitReturn ==
    /\ \E t \in Threads :
        /\ threads[t].pc = "check"
        /\ threads' = [threads EXCEPT ![t].pc = "returned",
                                      ![t].ret = InitResult(threads[t].flag)]
    /\ UNCHANGED <<DIST, INIT, tables, constructions, sampled>>
    /\ UNCHANGED <<paramVars, pss, sharingVars, coeffVars, mathVars, circuitVars, idVars>>

NextInit ==
    \/ InitEnter
    \/ CallOnce
    \/ Closure
    \/ InitReturn

SpecInit == InitMath /\ [][NextInit]_vars

\* The threads whose call of init() has returned.
ReturnedThreads == {t \in Threads : threads[t].pc = "returned"}

\* C14: under any interleaving of init() calls for any widths, the log
\* tables are constructed exactly once for each width init() was called
\* for: never twice for a width, and once for the width of every call that
\* has returned.
C14_ConstructedOncePerWidth ==
    /\ \A w \in Widths : constructions[w] <= 1
    /\ \A t \in ReturnedThreads : constructions[threads[t].W] = 1

\* C17: only the call that executed the construction can return Err; every
\* other call returns Ok and the construction is not executed again, also
\* when the construction failed and the tables are not there.
C17_OnlyConstructingCallCanFail ==
    /\ \A w \in Widths : constructions[w] <= 1
    /\ \A t \in ReturnedThreads :
        /\ threads[t].ret.tag = "Err" => threads[t].ran
        /\ ~threads[t].ran => threads[t].ret = InitResult(TRUE)

C17_Witness ==
    \E t, u \in ReturnedThreads :
        /\ threads[t].W = threads[u].W
        /\ threads[t].ran /\ threads[t].ret.tag = "Err"
        /\ ~threads[u].ran /\ threads[u].ret = InitResult(TRUE)
        /\ constructions[threads[u].W] = 1
        /\ threads[u].W \notin tables

(***************************************************************************)
(* SpecIDs: one ProtocolIDBuilder and the calls of next() on it.           *)
(***************************************************************************)
\* The parent IDs: byte strings of length at most MaxParentLen.
ParentIDs == SeqsUpTo({0, U8Max}, MaxParentLen)

\* builder = ProtocolIDBuilder::new(&parent_id, num)
BuilderNewCall ==
    /\ builder = Null
    /\ \E parent_id \in ParentIDs :
       \E num \in 0 .. MaxNum :
        builder' = BuilderNew(parent_id, num)
    /\ UNCHANGED <<children, last_child, next_calls>>
    /\ UNCHANGED <<paramVars, pss, sharingVars, coeffVars, mathVars, circuitVars, fieldVars>>

\* last_child = builder.next()
NextCall ==
    /\ builder # Null
    /\ next_calls < MaxCalls
    /\ LET r == BuilderNext(builder)
       IN  /\ builder' = r.self
           /\ last_child' = r.item
           /\ children' = IF r.item.tag = "Some" THEN Append(children, r.item.val) ELSE children
    /\ next_calls' = next_calls + 1
    /\ UNCHANGED <<paramVars, pss, sharingVars, coeffVars, mathVars, circuitVars, fieldVars>>

NextIDs ==
    \/ BuilderNewCall
    \/ NextCall

SpecIDs == InitMath /\ [][NextIDs]_vars

\* C15: over any sequence of next() calls on one builder, calls after a
\* None included, the child IDs returned as Some are pairwise distinct, and
\* each is the parent ID followed by a suffix of the length chosen in new.
C15_ChildIDsDistinct ==
    builder # Null =>
        /\ NoRepetition(children)
        /\ \A i \in 1 .. Len(children) :
            /\ Len(children[i]) = Len(builder.id) + Len(builder.suffix)
            /\ SubSeq(children[i], 1, Len(builder.id)) = builder.id

====
